---- MODULE Spec2Model ----
(***************************************************************************)
(* LinkiSend service worker (backend/public/service-worker.js).            *)
(*                                                                         *)
(* The file holds three revisions of the worker script:                    *)
(*   "final" : lines 1-24   (no cache, no fetch listener)                  *)
(*   "v3"    : lines 26-99  (CACHE_NAME = "linkisend-v3")                  *)
(*   "v1"    : lines 101-147 (CACHE_NAME = "linkisend-v1")                 *)
(* One revision is deployed per behaviour (variable rev).  The host        *)
(* (browser) drives the worker life cycle and dispatches the events; the   *)
(* listeners are modelled promise step by promise step.                    *)
(***************************************************************************)
EXTENDS Integers, Sequences, FiniteSets, TLC

\* ------------------------------------------------------------------ bounds
MaxTasks == 2        \* fetch events dispatched per worker instance
MaxMessages == 2     \* message events

\* --------------------------------------------------------------- revisions
Revisions == {"final", "v3", "v1"}

CACHE_NAME(r) ==
  CASE r = "v3" -> "linkisend-v3"
    [] r = "v1" -> "linkisend-v1"
    [] OTHER    -> "<none>"

ASSETS(r) ==
  CASE r = "v3" -> << "/", "/index.html", "/claim.html", "/confirmation.html",
                      "/history.html", "/send.html", "/countries.js",
                      "/config.js", "/assets/branding/logo-word.svg",
                      "/assets/branding/logo-arrow.svg",
                      "/assets/icons/icon-192.png",
                      "/assets/icons/icon-512.png" >>
    [] r = "v1" -> << "/", "/index.html", "/countries.js", "/config.js",
                      "/assets/branding/logo-word.svg",
                      "/assets/branding/logo-arrow.svg" >>
    [] OTHER    -> << >>

Range(s) == {s[i] : i \in 1..Len(s)}

AssetSet(r) == Range(ASSETS(r))

\* the revision precaches (has an install listener that calls waitUntil)
HasCache(r) == r \in {"v3", "v1"}

\* the revision registers a fetch listener
HasFetchHandler(r) == r \in {"v3", "v1"}

\* ----------------------------------------------------------------- strings
startsWith(s, p) == Len(s) >= Len(p) /\ SubSeq(s, 1, Len(p)) = p

endsWith(s, p) ==
  Len(s) >= Len(p) /\ SubSeq(s, Len(s) - Len(p) + 1, Len(s)) = p

\* position of the first "?" of a URL, or Len + 1 when there is none
QueryStart(u) ==
  LET qs == {i \in 1..Len(u) : SubSeq(u, i, i) = "?"}
  IN  IF qs = {} THEN Len(u) + 1
      ELSE CHOOSE i \in qs : \A j \in qs : i <= j

\* new URL(request.url).pathname : the URL without its query string
pathname(u) == SubSeq(u, 1, QueryStart(u) - 1)

\* ---------------------------------------------------------------- requests
\* the requests pages issue: [url, mode]; page loads are "navigate"
Req(u, m) == [url |-> u, mode |-> m]

Requests ==
  { Req("/index.html", "navigate"), Req("/api/rates", "navigate"),
    Req("/create-link/abc", "navigate"), Req("/config.js", "no-cors"),
    Req("/config.js?v=2", "no-cors"), Req("/manifest.json", "no-cors"),
    Req("/api/rates", "cors") }

\* outcome of one network fetch: a response (its status), or a network error
NetOutcomes == {"200", "404", "error"}

\* outcomes of the fetch of a page's request: the fetch listener never looks
\* at the status of a response, one status stands for them all
PageOutcomes == {"200", "error"}

\* Response.ok, as cache.addAll requires it of every response
IsOk(o) == o = "200"

MessageData == {"null", "SKIP_WAITING", "PING", "untyped"}

\* ------------------------------------------------------------ cache storage
\* caches is a sequence of stores in creation order; a store is
\* [name |-> cache name, entries |-> function URL -> response status]
EmptyEntries == [u \in {} |-> "200"]

CacheNames(cs) == {cs[i].name : i \in 1..Len(cs)}

StoreIndex(cs, n) == CHOOSE i \in 1..Len(cs) : cs[i].name = n

\* caches.open(name): the store is created when it does not exist
CachesOpen(cs, n) ==
  IF n \in CacheNames(cs) THEN cs
  ELSE Append(cs, [name |-> n, entries |-> EmptyEntries])

\* cache.put(request, response) on an open store
CachePut(cs, n, u, st) ==
  LET i == StoreIndex(cs, n)
      e == cs[i].entries
  IN  [cs EXCEPT ![i].entries =
         [k \in (DOMAIN e) \cup {u} |-> IF k = u THEN st ELSE e[k]]]

\* faulty variant: cache.add of a single URL instead of addAll
CacheAddOnlyOne(cs, n, urls) ==
  LET i == StoreIndex(cs, n)
      e == cs[i].entries
      one == IF urls = {} THEN {} ELSE {CHOOSE u \in urls : TRUE}
  IN  [cs EXCEPT ![i].entries =
         [k \in (DOMAIN e) \cup one |-> IF k \in one THEN "200" ELSE e[k]]]

\* cache.addAll(urls): every response is stored (all were ok)
CacheAddAll(cs, n, urls) ==
  LET i == StoreIndex(cs, n)
      e == cs[i].entries
  IN  [cs EXCEPT ![i].entries =
         [k \in (DOMAIN e) \cup urls |-> IF k \in urls THEN "200" ELSE e[k]]]

\* caches.delete(name)
CachesDelete(cs, n) == SelectSeq(cs, LAMBDA s : s.name # n)

\* caches.match(url): the first store, in creation order, holding the URL;
\* "undefined" when none does
CachesMatch(cs, u) ==
  LET hits == {i \in 1..Len(cs) : u \in DOMAIN cs[i].entries}
  IN  IF hits = {} THEN "undefined"
      ELSE cs[CHOOSE i \in hits : \A j \in hits : i <= j].entries[u]

\* a store as a previous deployment of revision r left it
StoreOf(r) == [name |-> CACHE_NAME(r), entries |-> [u \in AssetSet(r) |-> "200"]]

InitialCaches ==
  { << >>, << StoreOf("v1") >>, << StoreOf("v3") >>,
    << StoreOf("v1"), StoreOf("v3") >>, << StoreOf("v3"), StoreOf("v1") >> }

\* ------------------------------------------------------------------- state
VARIABLES
  rev,            \* the deployed revision of the script
  caches,         \* the host's cache storage (CacheStorage)
  state,          \* worker life cycle: parsed, installing, installed,
                  \*   activating, activated, redundant
  clientsOpen,    \* pages controlled by an older worker are still open
  installPc,      \* position of the install listener's promise chain
  addIdx,         \* cache.addAll: index of the next ASSETS fetch
  installWait,    \* promise given to the install event's waitUntil
  fetchFailed,    \* a manifest fetch failed during this install attempt
  skipBy,         \* listeners that have called self.skipWaiting()
  activatePc,     \* position of the activate listener's promise chain
  keys,           \* the names caches.keys() resolved with
  toDelete,       \* caches.delete(k) calls issued and not yet completed
  activateWait,   \* promise given to the activate event's waitUntil
  claimed,        \* self.clients.claim() has been called
  tasks,          \* fetch events handled by this worker instance
  messages,       \* message events dispatched so far
  msgSkipCalls    \* skipWaiting calls made by the message listener

vars == << rev, caches, state, clientsOpen, installPc, addIdx,
           installWait, fetchFailed, skipBy, activatePc, keys, toDelete,
           activateWait, claimed, tasks, messages, msgSkipCalls >>

installVars == << installPc, addIdx, installWait, fetchFailed >>
activateVars == << activatePc, keys, toDelete, activateWait, claimed >>
messageVars == << messages, msgSkipCalls >>

Init ==
  /\ rev \in Revisions
  /\ caches \in InitialCaches
  /\ state = "parsed"
  /\ clientsOpen \in BOOLEAN
  /\ installPc = "idle"
  /\ addIdx = 1
  /\ installWait = "none"
  /\ fetchFailed = FALSE
  /\ skipBy = {}
  /\ activatePc = "idle"
  /\ keys = {}
  /\ toDelete = {}
  /\ activateWait = "none"
  /\ claimed = FALSE
  /\ tasks = << >>
  /\ messages = 0
  /\ msgSkipCalls = 0

\* ----------------------------------------------------------------- install
\* The host dispatches the install event; the listener runs to its end.
\*   final : self.skipWaiting(), no waitUntil
\*   v3/v1 : event.waitUntil(caches.open(..).then(addAll).then(skipWaiting))
InstallEvent ==
  /\ state = "parsed"
  /\ state' = "installing"
  /\ addIdx' = 1
  /\ fetchFailed' = FALSE
  /\ IF HasCache(rev)
     THEN /\ installPc' = "open"
          /\ installWait' = "pending"
          /\ skipBy' = skipBy
     ELSE /\ installPc' = "done"
          /\ installWait' = "none"
          /\ skipBy' = skipBy \cup {"install"}
  /\ UNCHANGED << rev, caches, clientsOpen, activateVars, tasks, messageVars >>

\* faulty variant: skipWaiting called as soon as the store is open, outside
\* the chain that waits for addAll
InstallOpenSkipsWaiting ==
  /\ installPc = "open"
  /\ caches' = CachesOpen(caches, CACHE_NAME(rev))
  /\ installPc' = "addAll"
  /\ skipBy' = skipBy \cup {"install"}
  /\ UNCHANGED << rev, state, clientsOpen, addIdx, installWait, fetchFailed,
                  activatePc, keys, toDelete, activateWait, claimed, tasks,
                  messages, msgSkipCalls >>

\* caches.open(CACHE_NAME) resolves; cache.addAll(ASSETS) starts
InstallOpen ==
  /\ installPc = "open"
  /\ caches' = CachesOpen(caches, CACHE_NAME(rev))
  /\ installPc' = "addAll"
  /\ UNCHANGED << rev, state, clientsOpen, addIdx, installWait,
                  fetchFailed, skipBy, activateVars, tasks, messageVars >>

\* faulty variant: a failed fetch is skipped instead of rejecting addAll
InstallAddAllFetchLenient(o) ==
  /\ installPc = "addAll"
  /\ addIdx <= Len(ASSETS(rev))
  /\ addIdx' = addIdx + 1
  /\ fetchFailed' = (fetchFailed \/ ~IsOk(o))
  /\ UNCHANGED << rev, caches, state, clientsOpen, installPc,
                  installWait, skipBy, activatePc, keys, toDelete,
                  activateWait, claimed, tasks, messages, msgSkipCalls >>

\* one fetch of cache.addAll settles: an ok response is kept for the final
\* write; a network error or a non-ok status rejects addAll, nothing is
\* written and the chain's .then(skipWaiting) is skipped
InstallAddAllFetch(o) ==
  /\ installPc = "addAll"
  /\ addIdx <= Len(ASSETS(rev))
  /\ IF IsOk(o)
     THEN /\ addIdx' = addIdx + 1
          /\ UNCHANGED << installPc, installWait, fetchFailed >>
     ELSE /\ installPc' = "done"
          /\ installWait' = "rejected"
          /\ fetchFailed' = TRUE
          /\ addIdx' = addIdx
  /\ UNCHANGED << rev, caches, state, clientsOpen, skipBy,
                  activateVars, tasks, messageVars >>

\* every response arrived ok: addAll stores them all and resolves
InstallAddAllCommit ==
  /\ installPc = "addAll"
  /\ addIdx > Len(ASSETS(rev))
  /\ caches' = CacheAddAll(CachesOpen(caches, CACHE_NAME(rev)),
                           CACHE_NAME(rev), AssetSet(rev))
  /\ installPc' = "skipWaiting"
  /\ UNCHANGED << rev, state, clientsOpen, addIdx, installWait,
                  fetchFailed, skipBy, activateVars, tasks, messageVars >>

\* .then(() => self.skipWaiting()) ; the waitUntil promise resolves
InstallSkipWaiting ==
  /\ installPc = "skipWaiting"
  /\ skipBy' = skipBy \cup {"install"}
  /\ installPc' = "done"
  /\ installWait' = "resolved"
  /\ UNCHANGED << rev, caches, state, clientsOpen, addIdx,
                  fetchFailed, activateVars, tasks, messageVars >>

\* host: the install event's lifetime promises have settled
InstallSettled ==
  /\ state = "installing"
  /\ installPc = "done"
  /\ state' = IF installWait = "rejected" THEN "redundant" ELSE "installed"
  /\ UNCHANGED << rev, caches, clientsOpen, installVars, skipBy,
                  activateVars, tasks, messageVars >>

\* host: a failed installation is retried later with a new worker instance
InstallRetry ==
  /\ state = "redundant"
  /\ state' = "parsed"
  /\ installPc' = "idle"
  /\ addIdx' = 1
  /\ installWait' = "none"
  /\ fetchFailed' = FALSE
  /\ skipBy' = {}
  /\ UNCHANGED << rev, caches, clientsOpen, activateVars, tasks,
                  messageVars >>

\* every fetch event of the instance is finished, its copy included
Quiet == \A i \in 1..Len(tasks) :
           tasks[i].pc = "done" /\ tasks[i].put \in {"none", "done"}

\* host: the script is registered again once the active instance is idle;
\* a new instance of the same revision starts its life cycle
Reinstall ==
  /\ state = "activated"
  /\ Quiet
  /\ state' = "parsed"
  /\ installPc' = "idle"
  /\ addIdx' = 1
  /\ installWait' = "none"
  /\ fetchFailed' = FALSE
  /\ skipBy' = {}
  /\ activatePc' = "idle"
  /\ keys' = {}
  /\ toDelete' = {}
  /\ activateWait' = "none"
  /\ claimed' = FALSE
  /\ tasks' = << >>
  /\ UNCHANGED << rev, caches, clientsOpen, messageVars >>

\* ---------------------------------------------------------------- activate
\* host: pages held by an older worker are closed
ClientsClose ==
  /\ clientsOpen
  /\ clientsOpen' = FALSE
  /\ UNCHANGED << rev, caches, state, installVars, skipBy,
                  activateVars, tasks, messageVars >>

\* faulty variant: the comparison with CACHE_NAME inverted
StaleNamesInverted(r, ks) == {k \in ks : k = CACHE_NAME(r)}

\* faulty variant: every listed store is deleted, the current one included
StaleNamesAll(r, ks) == ks

\* names the activate listener deletes among the names caches.keys() gave
\*   final : every name           (keys.map(k => caches.delete(k)))
\*   v3/v1 : k === CACHE_NAME ? null : caches.delete(k)
StaleNames(r, ks) ==
  IF HasCache(r) THEN {k \in ks : k # CACHE_NAME(r)} ELSE ks

\* The host activates a waiting worker once skipWaiting was called or no
\* page is held by an older worker (which this worker then replaces), and
\* dispatches the activate event; the listener runs to its end.
\*   final : event.waitUntil(keys().then(delete all)); self.clients.claim()
\*   v3/v1 : event.waitUntil(keys().then(delete stale).then(claim))
ActivateEvent ==
  /\ state = "installed"
  /\ skipBy # {} \/ ~clientsOpen
  /\ state' = "activating"
  /\ activatePc' = "keys"
  /\ activateWait' = "pending"
  /\ keys' = {}
  /\ toDelete' = {}
  /\ claimed' = IF HasCache(rev) THEN FALSE ELSE TRUE
  /\ clientsOpen' = FALSE
  /\ UNCHANGED << rev, caches, installVars, skipBy, tasks,
                  messageVars >>

\* caches.keys() resolves; one caches.delete(k) is issued per stale name
ActivateKeys ==
  /\ activatePc = "keys"
  /\ keys' = CacheNames(caches)
  /\ toDelete' = StaleNames(rev, CacheNames(caches))
  /\ activatePc' = "deleting"
  /\ UNCHANGED << rev, caches, state, clientsOpen, installVars,
                  skipBy, activateWait, claimed, tasks, messageVars >>

\* one caches.delete(k) completes
ActivateDelete(k) ==
  /\ activatePc = "deleting"
  /\ k \in toDelete
  /\ caches' = CachesDelete(caches, k)
  /\ toDelete' = toDelete \ {k}
  /\ UNCHANGED << rev, state, clientsOpen, installVars, skipBy,
                  activatePc, keys, activateWait, claimed, tasks,
                  messageVars >>

\* Promise.all resolves; v3/v1: .then(() => self.clients.claim()); the
\* waitUntil promise resolves
ActivateResolve ==
  /\ activatePc = "deleting"
  /\ toDelete = {}
  /\ activatePc' = "done"
  /\ activateWait' = "resolved"
  /\ claimed' = IF HasCache(rev) THEN TRUE ELSE claimed
  /\ UNCHANGED << rev, caches, state, clientsOpen, installVars,
                  skipBy, keys, toDelete, tasks, messageVars >>

\* host: the activate event's lifetime promises have settled; the event
\* and what its promise chain held (keys) are released
ActivateSettled ==
  /\ state = "activating"
  /\ activatePc = "done"
  /\ state' = "activated"
  /\ keys' = {}
  /\ UNCHANGED << rev, caches, clientsOpen, installVars, skipBy,
                  activatePc, toDelete, activateWait, claimed, tasks,
                  messageVars >>

\* ----------------------------------------------------------------- message
\* faulty variant: any message with data triggers skipWaiting
CallsSkipWaitingAnyData(d) == d # "null"

\* event.data is truthy
HasData(d) == d # "null"

\* event.data.type
TypeOf(d) == IF d \in {"SKIP_WAITING", "PING"} THEN d ELSE "undefined"

\* if (event.data && event.data.type === "SKIP_WAITING") self.skipWaiting()
CallsSkipWaiting(d) == HasData(d) /\ TypeOf(d) = "SKIP_WAITING"

MessageEvent(d) ==
  /\ state \in {"installing", "installed", "activating", "activated"}
  /\ messages < MaxMessages
  /\ messages' = messages + 1
  /\ IF CallsSkipWaiting(d)
     THEN /\ skipBy' = skipBy \cup {"message"}
          /\ msgSkipCalls' = msgSkipCalls + 1
     ELSE UNCHANGED << skipBy, msgSkipCalls >>
  /\ UNCHANGED << rev, caches, state, clientsOpen, installVars,
                  activateVars, tasks >>

\* ------------------------------------------------------------------- fetch
\* faulty variant: the navigation test placed before the exclusions
BranchNavigateFirst(r, req) ==
  LET path == pathname(req.url)
  IN  IF r = "v3"
      THEN IF req.mode = "navigate" THEN "navigate"
           ELSE IF endsWith(path, "/manifest.json") THEN "excluded"
           ELSE IF startsWith(path, "/create-link") THEN "excluded"
           ELSE IF path \in AssetSet(r) THEN "cacheFirst"
           ELSE "default"
      ELSE IF startsWith(path, "/create-link") THEN "excluded"
           ELSE IF path \in AssetSet(r) THEN "cacheFirst"
           ELSE "default"

\* faulty variant: the API prefix is not excluded
BranchNoApiExclusion(r, req) ==
  LET path == pathname(req.url)
  IN  IF r = "v3"
      THEN IF endsWith(path, "/manifest.json") THEN "excluded"
           ELSE IF req.mode = "navigate" THEN "navigate"
           ELSE IF path \in AssetSet(r) THEN "cacheFirst"
           ELSE "default"
      ELSE IF path \in AssetSet(r) THEN "cacheFirst"
           ELSE "default"

\* faulty variant: the ASSETS test placed before the navigation test
BranchAssetsFirst(r, req) ==
  LET path == pathname(req.url)
  IN  IF r = "v3"
      THEN IF endsWith(path, "/manifest.json") THEN "excluded"
           ELSE IF startsWith(path, "/create-link") THEN "excluded"
           ELSE IF path \in AssetSet(r) THEN "cacheFirst"
           ELSE IF req.mode = "navigate" THEN "navigate"
           ELSE "default"
      ELSE IF startsWith(path, "/create-link") THEN "excluded"
           ELSE IF path \in AssetSet(r) THEN "cacheFirst"
           ELSE "default"

\* faulty variant: the cache-first branch is taken without the
\* ASSETS.includes test
BranchCachesEverything(r, req) ==
  LET path == pathname(req.url)
  IN  IF startsWith(path, "/create-link") THEN "excluded"
      ELSE IF r = "v3" /\ endsWith(path, "/manifest.json") THEN "excluded"
      ELSE IF r = "v3" /\ req.mode = "navigate" THEN "navigate"
      ELSE "cacheFirst"

\* the strategy the fetch listener of revision r applies to a request
\*   v3 : manifest.json suffix, /create-link prefix, navigate, ASSETS, default
\*   v1 : /create-link prefix, ASSETS, default
Branch(r, req) ==
  LET path == pathname(req.url)
  IN  IF r = "v3"
      THEN IF endsWith(path, "/manifest.json") THEN "excluded"
           ELSE IF startsWith(path, "/create-link") THEN "excluded"
           ELSE IF req.mode = "navigate" THEN "navigate"
           ELSE IF path \in AssetSet(r) THEN "cacheFirst"
           ELSE "default"
      ELSE IF startsWith(path, "/create-link") THEN "excluded"
           ELSE IF path \in AssetSet(r) THEN "cacheFirst"
           ELSE "default"

\* faulty variant: the navigation branch falls back to the request itself
FallbackKeyRequest(b, req) == req.url

\* faulty variant: every network-first branch falls back to the app shell
FallbackKeyIndex(b, req) == "/index.html"

\* the cache key the network-first strategies fall back to
\*   navigate : caches.match("/index.html") ; default : caches.match(request)
FallbackKey(b, req) == IF b = "navigate" THEN "/index.html" ELSE req.url

\* faulty variant: no revision stores a copy
StoresCopyNever(r) == FALSE

\* the cache-first branch stores a copy of the network response
\*   v3 : caches.open(CACHE_NAME).then((c) => c.put(event.request, copy))
\*   v1 : res || fetch(e.request)         (no copy)
StoresCopy(r) == r = "v3"

\* A task is one fetch event:
\*   req       the request            branch   the strategy applied
\*   pc        what the handler's promise chain waits for:
\*               "pass"     not intercepted, the browser fetches itself
\*               "net"      fetch(request)
\*               "match"    caches.match(request)    (cache-first)
\*               "fallback" caches.match(..)         (after a network error)
\*               "done"
\*   responded respondWith was called
\*   result    "pending", a response status, or "failure"
\*   from      where the response came from: "none", "network", "cache"
\*   neterr    the request's network fetch failed
\*   net, reads, writes  network fetches, cache lookups, cache writes issued
\*   put       the copy's un-awaited chain: "none", "open", "put", "done"
\*             (the copy is a clone of the response in result)
NewTask(r, req) ==
  LET b == Branch(r, req)
  IN  [ req |-> req, branch |-> b,
        pc |-> CASE b = "excluded"   -> "pass"
                 [] b = "cacheFirst" -> "match"
                 [] OTHER            -> "net",
        responded |-> b # "excluded",
        result |-> "pending", from |-> "none", neterr |-> FALSE,
        net |-> IF b \in {"navigate", "default"} THEN 1 ELSE 0,
        reads |-> IF b = "cacheFirst" THEN 1 ELSE 0,
        writes |-> 0, put |-> "none" ]

\* the host dispatches a fetch event of a controlled page to the active
\* worker; the listener runs to its end
FetchEvent(req) ==
  /\ state = "activated"
  /\ HasFetchHandler(rev)
  /\ Len(tasks) < MaxTasks
  /\ tasks' = Append(tasks, NewTask(rev, req))
  /\ UNCHANGED << rev, caches, state, clientsOpen, installVars,
                  skipBy, activateVars, messageVars >>

\* a request the listener did not intercept is fetched by the browser
PassThrough(i, o) ==
  /\ i \in 1..Len(tasks)
  /\ tasks[i].pc = "pass"
  /\ tasks' = [tasks EXCEPT ![i].pc = "done",
                 ![i].result = IF o = "error" THEN "failure" ELSE o,
                 ![i].from = IF o = "error" THEN "none" ELSE "network",
                 ![i].neterr = (o = "error")]
  /\ UNCHANGED << rev, caches, state, clientsOpen, installVars,
                  skipBy, activateVars, messageVars >>

\* caches.match(event.request) resolves in the cache-first branch:
\* a hit is returned, a miss starts fetch(event.request)
CacheFirstMatch(i) ==
  /\ i \in 1..Len(tasks)
  /\ tasks[i].pc = "match"
  /\ LET cached == CachesMatch(caches, tasks[i].req.url)
     IN  tasks' = IF cached # "undefined"
                  THEN [tasks EXCEPT ![i].pc = "done", ![i].result = cached,
                                     ![i].from = "cache"]
                  ELSE [tasks EXCEPT ![i].pc = "net",
                                     ![i].net = tasks[i].net + 1]
  /\ UNCHANGED << rev, caches, state, clientsOpen, installVars,
                  skipBy, activateVars, messageVars >>

\* faulty variant: the network-first branches lack their .catch, a network
\* error rejects the respondWith promise
NetSettleUncaught(i, o) ==
  /\ i \in 1..Len(tasks)
  /\ tasks[i].pc = "net"
  /\ tasks' =
       IF o = "error"
       THEN [tasks EXCEPT ![i].pc = "done", ![i].result = "failure",
                          ![i].neterr = TRUE]
       ELSE [tasks EXCEPT ![i].pc = "done", ![i].result = o,
               ![i].from = "network",
               ![i].put = IF tasks[i].branch = "cacheFirst" /\ StoresCopy(rev)
                          THEN "open" ELSE "none"]
  /\ UNCHANGED << rev, caches, state, clientsOpen, installPc, addIdx,
                  installWait, fetchFailed, skipBy, activatePc, keys,
                  toDelete, activateWait, claimed, messages, msgSkipCalls >>

\* faulty variant: a network-first branch fetches a second time after a
\* network error before it falls back to the cache
NetSettleRetry(i, o) ==
  /\ i \in 1..Len(tasks)
  /\ tasks[i].pc = "net"
  /\ LET t == tasks[i]
     IN  tasks' =
           IF t.branch = "cacheFirst"
           THEN IF o = "error"
                THEN [tasks EXCEPT ![i].pc = "done", ![i].result = "failure",
                                   ![i].neterr = TRUE]
                ELSE [tasks EXCEPT ![i].pc = "done", ![i].result = o,
                        ![i].from = "network",
                        ![i].put = IF StoresCopy(rev) THEN "open" ELSE "none"]
           ELSE IF o = "error"
                THEN IF t.net < 2
                     THEN [tasks EXCEPT ![i].net = t.net + 1]
                     ELSE [tasks EXCEPT ![i].pc = "fallback",
                                        ![i].neterr = TRUE,
                                        ![i].reads = t.reads + 1]
                ELSE [tasks EXCEPT ![i].pc = "done", ![i].result = o,
                                   ![i].from = "network"]
  /\ UNCHANGED << rev, caches, state, clientsOpen, installVars,
                  skipBy, activateVars, messageVars >>

\* fetch(event.request) settles
\*   cache-first : a response is returned (v3 starts the un-awaited copy);
\*                 a network error rejects the respondWith promise
\*   navigate, default : a response is returned; a network error starts the
\*                 .catch(() => caches.match(..)) lookup
NetSettle(i, o) ==
  /\ i \in 1..Len(tasks)
  /\ tasks[i].pc = "net"
  /\ LET t == tasks[i]
     IN  tasks' =
           IF t.branch = "cacheFirst"
           THEN IF o = "error"
                THEN [tasks EXCEPT ![i].pc = "done", ![i].result = "failure",
                                   ![i].neterr = TRUE]
                ELSE [tasks EXCEPT ![i].pc = "done", ![i].result = o,
                        ![i].from = "network",
                        ![i].put = IF StoresCopy(rev) THEN "open" ELSE "none"]
           ELSE IF o = "error"
                THEN [tasks EXCEPT ![i].pc = "fallback", ![i].neterr = TRUE,
                                   ![i].reads = t.reads + 1]
                ELSE [tasks EXCEPT ![i].pc = "done", ![i].result = o,
                                   ![i].from = "network"]
  /\ UNCHANGED << rev, caches, state, clientsOpen, installVars,
                  skipBy, activateVars, messageVars >>

\* the fallback caches.match(..) resolves: its value, possibly undefined,
\* is what respondWith receives (undefined fails the request)
Fallback(i) ==
  /\ i \in 1..Len(tasks)
  /\ tasks[i].pc = "fallback"
  /\ LET cached == CachesMatch(caches,
                               FallbackKey(tasks[i].branch, tasks[i].req))
     IN  tasks' = IF cached # "undefined"
                  THEN [tasks EXCEPT ![i].pc = "done", ![i].result = cached,
                                     ![i].from = "cache"]
                  ELSE [tasks EXCEPT ![i].pc = "done",
                                     ![i].result = "failure"]
  /\ UNCHANGED << rev, caches, state, clientsOpen, installVars,
                  skipBy, activateVars, messageVars >>

\* the copy's caches.open(CACHE_NAME) resolves; c.put(..) starts
PutOpen(i) ==
  /\ i \in 1..Len(tasks)
  /\ tasks[i].put = "open"
  /\ caches' = CachesOpen(caches, CACHE_NAME(rev))
  /\ tasks' = [tasks EXCEPT ![i].put = "put",
                            ![i].writes = tasks[i].writes + 1]
  /\ UNCHANGED << rev, state, clientsOpen, installVars, skipBy,
                  activateVars, messageVars >>

\* the copy's c.put(event.request, copy) completes
PutWrite(i) ==
  /\ i \in 1..Len(tasks)
  /\ tasks[i].put = "put"
  /\ caches' = IF CACHE_NAME(rev) \in CacheNames(caches)
               THEN CachePut(caches, CACHE_NAME(rev), tasks[i].req.url,
                             tasks[i].result)
               ELSE caches
  /\ tasks' = [tasks EXCEPT ![i].put = "done"]
  /\ UNCHANGED << rev, state, clientsOpen, installVars, skipBy,
                  activateVars, messageVars >>

\* ---------------------------------------------------------- specification
Next ==
  \/ InstallEvent
  \/ InstallOpen
  \/ \E o \in NetOutcomes : InstallAddAllFetch(o)
  \/ InstallAddAllCommit
  \/ InstallSkipWaiting
  \/ InstallSettled
  \/ InstallRetry
  \/ Reinstall
  \/ ClientsClose
  \/ ActivateEvent
  \/ ActivateKeys
  \/ \E k \in toDelete : ActivateDelete(k)
  \/ ActivateResolve
  \/ ActivateSettled
  \/ \E d \in MessageData : MessageEvent(d)
  \/ \E req \in Requests : FetchEvent(req)
  \/ \E i \in 1..MaxTasks, o \in PageOutcomes : PassThrough(i, o)
  \/ \E i \in 1..MaxTasks : CacheFirstMatch(i)
  \/ \E i \in 1..MaxTasks, o \in PageOutcomes : NetSettle(i, o)
  \/ \E i \in 1..MaxTasks : Fallback(i)
  \/ \E i \in 1..MaxTasks : PutOpen(i)
  \/ \E i \in 1..MaxTasks : PutWrite(i)

Spec == Init /\ [][Next]_vars

\* the host settles the operations the fetch listeners wait for: while some
\* request waits for its caches.match or its fetch, one of the pending
\* operations eventually resolves or rejects
FairSpec ==
  /\ Spec
  /\ WF_vars(\E i \in 1..MaxTasks :
               \/ CacheFirstMatch(i)
               \/ \E o \in PageOutcomes : NetSettle(i, o)
               \/ Fallback(i))

\* =================================================================
\* Properties
\* =================================================================
\* the store named by the current version label holds an entry for URL u
InCurrent(u) ==
  /\ CACHE_NAME(rev) \in CacheNames(caches)
  /\ u \in DOMAIN caches[StoreIndex(caches, CACHE_NAME(rev))].entries

\* every key of every store
AllKeys == UNION {DOMAIN caches[i].entries : i \in 1..Len(caches)}

TaskIds == 1..Len(tasks)

\* "excluded" as the specification words it: API prefix or manifest suffix
ExcludedPath(path) ==
  startsWith(path, "/create-link") \/ endsWith(path, "/manifest.json")

\* "excluded" as each revision's listener words it
ExcludedIn(r, path) ==
  IF r = "v3" THEN ExcludedPath(path) ELSE startsWith(path, "/create-link")

\* C1: once the install listener's waitUntil promise has resolved, the store
\* named CACHE_NAME holds an entry for every path of ASSETS.
C1_InstalledAssetsCached ==
  installWait = "resolved" => \A p \in AssetSet(rev) : InCurrent(p)

C1_Witness ==
  /\ rev = "v3"
  /\ state = "installed"
  /\ installWait = "resolved"
  /\ \A p \in AssetSet(rev) : InCurrent(p)

\* C2: once the activate listener's waitUntil promise has resolved, the
\* cache registry lists no name other than CACHE_NAME, whatever names
\* caches.keys() had listed.
C2_StaleStoresPurged ==
  activateWait = "resolved" =>
    \A n \in CacheNames(caches) : n = CACHE_NAME(rev)

C2_Witness ==
  /\ state = "activating"
  /\ activateWait = "resolved"
  /\ \E n \in keys : n # CACHE_NAME(rev)
  /\ CACHE_NAME(rev) \in keys
  /\ CacheNames(caches) = {CACHE_NAME(rev)}

\* C3 (as claimed): a precached asset requested twice, the first request
\* missing the cache: the first request makes exactly one network fetch and
\* exactly one cache write, and a second request looked up once the first
\* was answered makes no network fetch, whether or not the first request's
\* cache write has completed.
C3_RequestedTwice ==
  [][ \A i, j \in TaskIds :
        ( /\ i < j
          /\ tasks[i].req = tasks[j].req
          /\ pathname(tasks[i].req.url) \in AssetSet(rev)
          /\ ~ExcludedPath(pathname(tasks[i].req.url))
          /\ tasks[i].req.mode # "navigate"
          /\ tasks[i].pc = "done"
          /\ tasks[i].from = "network" )
        => /\ tasks[i].net = 1
           /\ tasks[i].put \in {"none", "done"} => tasks[i].writes = 1
           /\ (j <= Len(tasks') /\ tasks[j].pc = "match"
                 /\ tasks'[j].pc # "match") => tasks'[j].net = 0 ]_vars

\* C4 (as claimed): no excluded path is a key of a cache store, and a
\* request with an excluded path (API prefix or manifest suffix) makes no
\* cache read and no cache write.
C4_ExcludedNeverCached ==
  /\ \A u \in AllKeys : ~ExcludedPath(pathname(u))
  /\ \A i \in TaskIds :
       ExcludedPath(pathname(tasks[i].req.url))
         => tasks[i].reads = 0 /\ tasks[i].writes = 0

\* C4 (amended): no excluded path is a key of a cache store, and a request
\* the deployed revision excludes (v3: API prefix or manifest suffix, v1:
\* API prefix only) makes no cache read and no cache write.
C4_RevisionExcludedNeverCached ==
  [](/\ \A u \in AllKeys : ~ExcludedPath(pathname(u))
     /\ \A i \in TaskIds :
          ExcludedIn(rev, pathname(tasks[i].req.url))
            => tasks[i].reads = 0 /\ tasks[i].writes = 0)

C4_Witness ==
  \E i \in TaskIds :
    /\ ExcludedIn(rev, pathname(tasks[i].req.url))
    /\ tasks[i].pc = "done"
    /\ tasks[i].neterr
    /\ \E j \in TaskIds : tasks[j].put = "done"

\* C5 (as claimed): a navigation request whose network fetch failed is
\* answered with the cached /index.html entry, status 200.
C5_NavigationFallback ==
  \A i \in TaskIds :
    (tasks[i].req.mode = "navigate" /\ tasks[i].neterr
       /\ tasks[i].pc = "done")
    => (tasks[i].result = "200" /\ tasks[i].from = "cache")

\* C5 (amended): in revision v3, a navigation request that is not excluded
\* and whose network fetch failed is answered with the cached /index.html
\* entry, status 200.
C5_V3NavigationFallback ==
  \A i \in TaskIds :
    (rev = "v3" /\ tasks[i].req.mode = "navigate" /\ tasks[i].neterr
       /\ ~ExcludedPath(pathname(tasks[i].req.url))
       /\ tasks[i].pc = "done")
    => (tasks[i].result = "200" /\ tasks[i].from = "cache"
          /\ tasks[i].result = CachesMatch(caches, "/index.html"))

\* (the entry of /config.js?v=2 was written by an earlier instance of the
\* worker: the navigation is answered after a second activation)
C5_Witness ==
  \E i \in TaskIds :
    /\ rev = "v3"
    /\ Len(tasks) = 1
    /\ InCurrent("/config.js?v=2")
    /\ tasks[i].req = Req("/api/rates", "navigate")
    /\ tasks[i].neterr
    /\ tasks[i].pc = "done"
    /\ tasks[i].result = "200"

C7_InstallFailsOnFetchFailure ==
  fetchFailed =>
    /\ installWait = "rejected"
    /\ "install" \notin skipBy
    /\ state \in {"installing", "redundant"}

C7_Witness ==
  /\ fetchFailed
  /\ addIdx > 1
  /\ state = "redundant"
  /\ installWait = "rejected"

C9_LifetimeCoversAsyncWork ==
  /\ installWait \in {"resolved", "rejected"} => installPc = "done"
  /\ activateWait = "resolved" => (activatePc = "done" /\ toDelete = {})
  /\ \A i \in TaskIds :
       (tasks[i].responded /\ tasks[i].result # "pending")
         => (tasks[i].pc = "done" /\ tasks[i].put \in {"none", "done"})

\* C10 (as claimed): for a request with an excluded path (API prefix or
\* manifest suffix) the listener neither calls respondWith nor fetches.
C10_ExcludedNotIntercepted ==
  \A i \in TaskIds :
    ExcludedPath(pathname(tasks[i].req.url))
      => (~tasks[i].responded /\ tasks[i].net = 0)

\* C10 (amended): for a request the deployed revision excludes (v3: API
\* prefix or manifest suffix, v1: API prefix only) the listener neither
\* calls respondWith nor fetches, whatever the request mode.
C10_RevisionExcludedNotIntercepted ==
  \A i \in TaskIds :
    ExcludedIn(rev, pathname(tasks[i].req.url))
      => (~tasks[i].responded /\ tasks[i].net = 0)

C10_Witness ==
  \E i \in TaskIds :
    /\ rev = "v3"
    /\ tasks[i].req = Req("/create-link/abc", "navigate")
    /\ ~tasks[i].responded
    /\ tasks[i].pc = "done"

\* the strategy the specification gives a request: excluded, then
\* navigation, then precached asset, then everything else
ClaimedStrategy(r, req) ==
  IF ExcludedPath(pathname(req.url)) THEN "excluded"
  ELSE IF req.mode = "navigate" THEN "navigate"
  ELSE IF pathname(req.url) \in AssetSet(r) THEN "cacheFirst"
  ELSE "default"

\* the strategy a revision gives a request: v3 as the specification says,
\* v1 without the navigation strategy and with the API prefix as its only
\* exclusion
RevisionStrategy(r, req) ==
  IF r = "v3" THEN ClaimedStrategy(r, req)
  ELSE IF ExcludedIn(r, pathname(req.url)) THEN "excluded"
  ELSE IF pathname(req.url) \in AssetSet(r) THEN "cacheFirst"
  ELSE "default"

\* what a task shows of the strategy s: respondWith called unless excluded;
\* network-first strategies fetch at once and look the cache up only after
\* a network error; cache-first looks the cache up at once and fetches only
\* after the lookup missed
Applies(t, s) ==
  /\ t.branch = s
  /\ t.responded <=> (s # "excluded")
  /\ s = "excluded" => (t.net = 0 /\ t.reads = 0)
  /\ s \in {"navigate", "default"} =>
       (t.net = 1 /\ t.reads = (IF t.neterr THEN 1 ELSE 0)
          /\ (t.from = "cache" => t.neterr))
  /\ s = "cacheFirst" =>
       (t.reads = 1 /\ t.net <= 1 /\ (t.from = "cache" => t.net = 0))

\* C11 (as claimed): every request gets exactly one strategy, with the
\* precedence excluded > navigation > precached asset > other; respondWith
\* is called exactly for the requests that are not excluded.
C11_OneStrategyByPrecedence ==
  \A i \in TaskIds : Applies(tasks[i], ClaimedStrategy(rev, tasks[i].req))

\* C11 (amended): every request gets exactly one strategy; in revision v3
\* with the precedence excluded > navigation > precached asset > other, in
\* revision v1 with the precedence excluded (API prefix only) > precached
\* asset > other; respondWith is called exactly for the requests the
\* revision does not exclude.
C11_OneStrategyByRevision ==
  [](\A i \in TaskIds :
       Applies(tasks[i], RevisionStrategy(rev, tasks[i].req)))

C11_Witness ==
  \E i \in TaskIds :
    /\ rev = "v3"
    /\ tasks[i].req = Req("/index.html", "navigate")
    /\ CachesMatch(caches, "/index.html") = "200"
    /\ tasks[i].pc = "done"
    /\ tasks[i].from = "network"
    /\ tasks[i].net = 1
    /\ tasks[i].reads = 0

\* C12: while the install listener has called skipWaiting, every path of
\* ASSETS is stored in the store named CACHE_NAME.
C12_SkipWaitingAfterPrecache ==
  "install" \in skipBy => \A p \in AssetSet(rev) : InCurrent(p)

C12_Witness ==
  /\ rev = "v1"
  /\ state = "installing"
  /\ skipBy = {"install"}
  /\ installWait = "resolved"
  /\ \A p \in AssetSet(rev) : InCurrent(p)

\* C13 (as claimed): while clients.claim() has been called by the activate
\* listener, no store with a name other than CACHE_NAME exists.
C13_ClaimAfterPurge ==
  claimed => \A n \in CacheNames(caches) : n = CACHE_NAME(rev)

\* the step in which the intercepted request i, whose network fetch failed,
\* is settled
FailedFetchSettles(i) ==
  /\ i \in TaskIds
  /\ i <= Len(tasks')
  /\ tasks[i].responded
  /\ tasks[i].pc # "done"
  /\ tasks'[i].pc = "done"
  /\ tasks'[i].neterr

\* the cache entry a strategy falls back to: the app shell for a
\* navigation, the request's own entry otherwise
FallbackEntry(s, req) ==
  CachesMatch(caches, IF s = "navigate" THEN "/index.html" ELSE req.url)

\* the request is answered with its fallback entry when there is one, and
\* fails when there is none
ResolvedByFallback(i, s) ==
  IF FallbackEntry(s, tasks[i].req) # "undefined"
  THEN /\ tasks'[i].result = FallbackEntry(s, tasks[i].req)
       /\ tasks'[i].from = "cache"
  ELSE tasks'[i].result = "failure"

\* the request whose fetch failed has issued no cache write
WritesNothing(i) ==
  tasks'[i].writes = 0 /\ tasks'[i].put = "none" /\ caches' = caches

\* C14 (as claimed): every network failure of an intercepted request is
\* caught: under each of the three strategies, the cache-first one after a
\* miss included, the request is answered with its cache fallback when a
\* matching entry exists and fails otherwise, and it writes nothing.
C14_FailureCaughtEverywhere ==
  [][ \A i \in 1..MaxTasks :
        FailedFetchSettles(i) =>
          /\ ResolvedByFallback(i, RevisionStrategy(rev, tasks[i].req))
          /\ WritesNothing(i) ]_vars

\* C14 (amended): a network failure under the network-first strategies
\* (navigation, default) is caught: the request is answered with its
\* fallback entry when there is one and fails otherwise.  Under cache-first
\* a network failure after a miss is not caught: the request fails, even
\* when an entry for it has been written in the meantime.  In every case the
\* request writes nothing.
C14_FailureCaughtNetworkFirst ==
  [][ \A i \in 1..MaxTasks :
        FailedFetchSettles(i) =>
          /\ RevisionStrategy(rev, tasks[i].req) \in {"navigate", "default"}
               => ResolvedByFallback(i, RevisionStrategy(rev, tasks[i].req))
          /\ RevisionStrategy(rev, tasks[i].req) = "cacheFirst"
               => tasks'[i].result = "failure"
          /\ WritesNothing(i) ]_vars

\* a cache-first request failed although an entry for it had been written
C14_Witness ==
  \E i, j \in TaskIds :
    /\ tasks[i].branch = "cacheFirst"
    /\ tasks[i].neterr
    /\ tasks[i].result = "failure"
    /\ tasks[i].pc = "done"
    /\ InCurrent(tasks[i].req.url)
    /\ j # i
    /\ tasks[j].req = tasks[i].req
    /\ tasks[j].result = "200"
    /\ tasks[j].put = "done"

\* C15: an intercepted request issues at most one network fetch and at most
\* one cache lookup, and, the operations it waits for settling, the promise
\* handed to respondWith is eventually settled (response or failure): a
\* settled request stays settled, and again and again no intercepted request
\* is pending.
C15_BoundedWorkAndTermination ==
  /\ [](\A i \in TaskIds : tasks[i].net <= 1 /\ tasks[i].reads <= 1)
  /\ [][ tasks' # tasks =>
           \A i \in TaskIds :
             (tasks[i].result # "pending" /\ i <= Len(tasks'))
               => tasks'[i].result = tasks[i].result ]_vars
  /\ []<>(\A i \in TaskIds :
            tasks[i].responded => tasks[i].result # "pending")

\* a request that used its one lookup and its one fetch is settled
C15_Witness ==
  \E i \in TaskIds :
    /\ tasks[i].responded
    /\ tasks[i].net = 1
    /\ tasks[i].reads = 1
    /\ tasks[i].pc = "done"
    /\ tasks[i].result # "pending"

\* the stores named by the current version label, with their entries
CurrentStore(cs) == SelectSeq(cs, LAMBDA s : s.name = CACHE_NAME(rev))

\* a step of the activate listener
ActivateStep ==
  \/ ActivateEvent
  \/ ActivateKeys
  \/ \E k \in toDelete : ActivateDelete(k)
  \/ ActivateResolve
  \/ ActivateSettled

\* C16: activation never removes the store named CACHE_NAME or one of its
\* entries: no step of the activate listener changes that store, and during
\* and after every activation each path of ASSETS is still held by it.
C16_ActivationKeepsCurrent ==
  /\ [][ActivateStep => CurrentStore(caches') = CurrentStore(caches)]_vars
  /\ [](state \in {"activating", "activated"}
          => \A p \in AssetSet(rev) : InCurrent(p))

\* an activation has deleted the stores of other versions; the store named
\* CACHE_NAME, which was among the listed names, still holds every asset
C16_Witness ==
  /\ rev = "v1"
  /\ state = "activating"
  /\ activatePc = "done"
  /\ CACHE_NAME(rev) \in keys
  /\ "linkisend-v3" \in keys
  /\ "linkisend-v3" \notin CacheNames(caches)
  /\ \A p \in AssetSet(rev) : InCurrent(p)
\* the stores with a name other than the current version label
OtherStores(cs) == SelectSeq(cs, LAMBDA s : s.name # CACHE_NAME(rev))

\* the keys of the store named by the current version label
CurrentKeys ==
  UNION {DOMAIN caches[i].entries :
           i \in {j \in 1..Len(caches) : caches[j].name = CACHE_NAME(rev)}}

\* a step of the fetch listener or of a promise it started: the steps that
\* record a new request (FetchEvent) or advance a recorded one (PassThrough,
\* CacheFirstMatch, NetSettle, Fallback, PutOpen, PutWrite)
FetchStep ==
  /\ tasks' # tasks
  /\ Len(tasks') >= Len(tasks)

\* request i is handled by a network-first strategy and makes a step
NetworkFirstStep(i) ==
  /\ i \in TaskIds
  /\ tasks[i].branch \in {"navigate", "default"}
  /\ i <= Len(tasks')
  /\ tasks'[i] # tasks[i]

\* C17: every key of the store named CACHE_NAME has a path listed in ASSETS
\* (it is so initially and for every key a step adds to that store); no step
\* of the fetch listener creates or changes a store of another name; a
\* request handled by the navigation or the default strategy issues no
\* write and its steps leave every store unchanged, whether its fetch
\* succeeds or fails.
C17_OnlyAssetsCached ==
  /\ \A u \in CurrentKeys : pathname(u) \in AssetSet(rev)
  /\ [][caches' # caches =>
          \A u \in CurrentKeys' \ CurrentKeys :
            pathname(u) \in AssetSet(rev)]_vars
  /\ [](\A i \in TaskIds :
          tasks[i].branch \in {"navigate", "default"}
            => tasks[i].writes = 0 /\ tasks[i].put = "none")
  /\ [][FetchStep => OtherStores(caches') = OtherStores(caches)]_vars
  /\ [][\A i \in 1..MaxTasks : NetworkFirstStep(i) => caches' = caches]_vars

\* the store holds a key written by the fetch listener, and a navigation and
\* a default request were answered, one from the network and one after a
\* network failure
C17_Witness ==
  /\ rev = "v3"
  /\ InCurrent("/config.js?v=2")
  /\ \E i, j \in TaskIds :
       /\ tasks[i].branch = "navigate"
       /\ tasks[i].pc = "done"
       /\ tasks[i].from = "network"
       /\ tasks[j].branch = "default"
       /\ tasks[j].pc = "done"
       /\ tasks[j].neterr

\* requests i and j are two cache-first requests for the same URL that both
\* missed the cache and fetched, both fetches succeeded, and every write they
\* started has completed
BothMissedAndSettled(i, j) ==
  /\ i # j
  /\ tasks[i].req = tasks[j].req
  /\ \A k \in {i, j} :
       /\ tasks[k].branch = "cacheFirst"
       /\ tasks[k].net = 1
       /\ tasks[k].pc = "done"
       /\ ~tasks[k].neterr
       /\ tasks[k].put \in {"none", "done"}

====
